---- MODULE Spec2Model ----
(***************************************************************************)
(* A model of py-oeis (src/oeis.py): the Sequence class, whose instance    *)
(* holds the list `sequence` of the values fetched so far, and the         *)
(* module-level function query.  Every method call is one action; the      *)
(* record `last` keeps what the most recent call was given, what it        *)
(* returned or raised, the list before the call and the remote requests    *)
(* the call made.  Python lists are 0-indexed, TLA+ sequences 1-indexed:   *)
(* Python's s[i] is s[i + 1] here.  The instance's `info` dictionary (name, *)
(* formula, author, ...) is written once by __init__ and read by no method  *)
(* modelled here; it is left out.  OEIS itself is a fixed catalogue whose   *)
(* search records show a prefix of the terms its b-files hold.              *)
(***************************************************************************)
EXTENDS Integers, Sequences, FiniteSets, TLC

\* ------------------------------------------------------------------ bounds

\* The remote catalogue holds the sequences A1 .. A<NumIds> (and FibId).
NumIds == 14
\* The instance is constructed for one of A1 .. A<NumInstanceIds> (or FibId).
NumInstanceIds == 6
\* The largest index, start or stop a call is given.
MaxIndex == 7
\* The number of fetch_sequence calls in one run.
MaxFetch == 2
\* The largest `instances` argument of find.
MaxInstances == 3
\* The largest number of records in one search response.
MaxRecords == 11
\* The largest `results` argument of query.
MaxResults == 2

\* --------------------------------------------------- Python values and text

\* Python's None, and an int argument that was passed.
None == <<>>
Some(n) == <<n>>
IsNone(x) == x = <<>>
Val(x) == x[1]

\* What a raising call leaves in place of a return value.
NoValue == <<>>

\* A text is a sequence of one-character strings.
Digits == <<"0", "1", "2", "3", "4", "5", "6", "7", "8", "9">>
IsDigit(c) == \E d \in 1..10 : Digits[d] = c
DigitVal(c) == (CHOOSE d \in 1..10 : Digits[d] = c) - 1
IsSpace(c) == c \in {" ", "\n", "\t"}

\* str.split(sep): the pieces between the separators, empty pieces kept.
RECURSIVE PySplit(_, _)
PySplit(s, sep) ==
  IF \A i \in 1..Len(s) : s[i] # sep
    THEN <<s>>
    ELSE LET i == CHOOSE k \in 1..Len(s) :
                    s[k] = sep /\ \A j \in 1..(k - 1) : s[j] # sep
         IN  <<SubSeq(s, 1, i - 1)>> \o PySplit(SubSeq(s, i + 1, Len(s)), sep)

\* str.split(): the maximal runs of non-whitespace.
RECURSIVE PySplitWs(_)
PySplitWs(s) ==
  IF s = <<>> THEN <<>>
  ELSE IF IsSpace(Head(s)) THEN PySplitWs(Tail(s))
  ELSE LET n == CHOOSE k \in 1..Len(s) :
                  /\ \A j \in 1..k : ~IsSpace(s[j])
                  /\ (k = Len(s) \/ IsSpace(s[k + 1]))
       IN  <<SubSeq(s, 1, n)>> \o PySplitWs(SubSeq(s, n + 1, Len(s)))

\* str.rstrip('\n')
RECURSIVE PyRStripNl(_)
PyRStripNl(s) ==
  IF s # <<>> /\ s[Len(s)] = "\n" THEN PyRStripNl(SubSeq(s, 1, Len(s) - 1)) ELSE s

\* str.startswith
PyStartsWith(s, c) == s # <<>> /\ s[1] = c

\* str.strip() as int() applies it
RECURSIVE PyStrip(_)
PyStrip(s) ==
  IF s # <<>> /\ IsSpace(Head(s)) THEN PyStrip(Tail(s))
  ELSE IF s # <<>> /\ IsSpace(s[Len(s)]) THEN PyStrip(SubSeq(s, 1, Len(s) - 1))
  ELSE s

RECURSIVE DigitsVal(_)
DigitsVal(s) ==
  IF s = <<>> THEN 0
  ELSE 10 * DigitsVal(SubSeq(s, 1, Len(s) - 1)) + DigitVal(s[Len(s)])

\* int(text): optional surrounding whitespace, an optional sign, then digits;
\* anything else raises ValueError.
PyInt(s) ==
  LET t == PyStrip(s)
      signed == t # <<>> /\ t[1] \in {"-", "+"}
      body == IF signed THEN Tail(t) ELSE t
  IN  IF body = <<>> \/ \E i \in 1..Len(body) : ~IsDigit(body[i])
        THEN [ok |-> FALSE, val |-> 0]
        ELSE [ok |-> TRUE,
              val |-> IF signed /\ t[1] = "-" THEN 0 - DigitsVal(body)
                      ELSE DigitsVal(body)]

\* list[i]: a negative i counts from the end; out of range raises IndexError.
PyListGet(s, i) ==
  LET k == IF i < 0 THEN i + Len(s) ELSE i
  IN  IF k < 0 \/ k >= Len(s)
        THEN [outcome |-> "IndexError", value |-> NoValue]
        ELSE [outcome |-> "ok", value |-> s[k + 1]]

\* The positions start, start + step, ... that a slice visits.
RECURSIVE SliceUp(_, _, _, _)
SliceUp(s, i, stop, step) ==
  IF i >= stop THEN <<>> ELSE <<s[i + 1]>> \o SliceUp(s, i + step, stop, step)

RECURSIVE SliceDown(_, _, _, _)
SliceDown(s, i, stop, step) ==
  IF i <= stop THEN <<>> ELSE <<s[i + 1]>> \o SliceDown(s, i + step, stop, step)

Min(a, b) == IF a < b THEN a ELSE b
Max(a, b) == IF a > b THEN a ELSE b

\* list[start:stop:step] for ints start, stop, step (slice.indices clamps start
\* and stop to the list, a negative one counting from the end; step 0 raises
\* ValueError).
PySlice(s, start, stop, step) ==
  LET n == Len(s)
      lo == IF step < 0 THEN 0 - 1 ELSE 0
      hi == IF step < 0 THEN n - 1 ELSE n
      clamp(x) == IF x < 0 THEN Max(x + n, lo) ELSE Min(x, hi)
  IN  IF step = 0 THEN [outcome |-> "ValueError", value |-> NoValue]
      ELSE IF step > 0
        THEN [outcome |-> "ok", value |-> SliceUp(s, clamp(start), clamp(stop), step)]
        ELSE [outcome |-> "ok", value |-> SliceDown(s, clamp(start), clamp(stop), step)]

\* ------------------------------------------------------------ the remote

\* The values the catalogue's sequences are made of.
Terms == <<0, 0 - 12>>

\* The terms OEIS holds for A<id>: the id-th list over Terms, shortest first.
RECURSIVE Numeral(_)
Numeral(id) ==
  IF id <= 0 THEN <<>>
  ELSE LET d == ((id - 1) % Len(Terms)) + 1
       IN  Numeral((id - d) \div Len(Terms)) \o <<Terms[d]>>

\* The entry whose search record carries data = "1,1,2,3,5".
FibId == 45
FibTerms == <<1, 1, 2, 3, 5, 8>>

Ids == (1..NumIds) \cup {FibId}
OeisTerms(id) == IF id = FibId THEN FibTerms ELSE Numeral(id)
\* How many leading terms the search record's data field shows.
InlineLen(id) == IF id = FibId THEN 5 ELSE (Len(OeisTerms(id)) + 1) \div 2

RECURSIVE NatToStr(_)
NatToStr(n) ==
  IF n < 10 THEN <<Digits[n + 1]>>
  ELSE NatToStr(n \div 10) \o <<Digits[(n % 10) + 1]>>
IntToStr(n) == IF n < 0 THEN <<"-">> \o NatToStr(0 - n) ELSE NatToStr(n)

RECURSIVE JoinInts(_)
JoinInts(s) ==
  IF Len(s) = 1 THEN IntToStr(s[1])
  ELSE JoinInts(SubSeq(s, 1, Len(s) - 1)) \o <<",">> \o IntToStr(s[Len(s)])

\* The JSON record of A<id>: its number and its comma-separated data.
OeisRecord(id) ==
  [number |-> id, data |-> JoinInts(SubSeq(OeisTerms(id), 1, InlineLen(id)))]

\* GET search?fmt=json&q=id:A<id>, then ['results']: the list holding the
\* record, or None for an unknown id.
MetadataResults(id) == IF id \in Ids THEN Some(<<OeisRecord(id)>>) ELSE None

RECURSIVE BFileLines(_, _)
BFileLines(terms, k) ==
  IF k > Len(terms) THEN <<>>
  ELSE NatToStr(k) \o <<" ">> \o IntToStr(terms[k]) \o <<"\n">>
         \o BFileLines(terms, k + 1)

\* GET A<id>/b<id>.txt: a comment line, then one "<index> <value>" line a term.
BFileText(id) == <<"#", " ", "A", "\n">> \o BFileLines(OeisTerms(id), 1)

\* The ids a search matches, in the order OEIS lists them.
Listing == [k \in 1..NumIds |-> k]

\* GET search?fmt=json&q=<terms>&start=<start>, then ['results']: None, or the
\* records of some ids of the listing from position start on.
SearchResults(start) ==
  {None} \cup
  {Some([k \in 1..n |-> OeisRecord(Listing[start + k])]) :
     n \in 0..Min(MaxRecords, Len(Listing) - start)}

\* ---------------------------------------------------------------- state

VARIABLES
  self,        \* the Sequence instance: [seq_id, sequence]
  bfileCalls,  \* b-file requests made so far for the instance
  last         \* the most recent call

vars == <<self, bfileCalls, last>>

NoCalls == [meta |-> 0, bfile |-> 0, search |-> 0]

\* What a method call comes to: the outcome ("ok" or the exception raised), the
\* value returned, the instance's list afterwards, the b-file requests it made.
Return(v, obj) ==
  [outcome |-> "ok", value |-> v, sequence |-> obj.sequence, bfile |-> 0]
Raise(e, obj) ==
  [outcome |-> e, value |-> NoValue, sequence |-> obj.sequence, bfile |-> 0]

\* list(map(int, pieces)): the ints, or ok = FALSE when one piece is no int.
RECURSIVE ParseAll(_)
ParseAll(pieces) ==
  IF pieces = <<>> THEN [ok |-> TRUE, val |-> <<>>]
  ELSE LET h == PyInt(Head(pieces))
           t == ParseAll(Tail(pieces))
       IN  IF h.ok /\ t.ok THEN [ok |-> TRUE, val |-> <<h.val>> \o t.val]
           ELSE [ok |-> FALSE, val |-> <<>>]

\* Sequence.__init__ from the metadata response: [outcome, obj].
SequenceInit(seq_id) ==
  LET results == MetadataResults(seq_id)
      info == Val(results)[1]
      parsed == ParseAll(PySplit(info.data, ","))
  IN  IF IsNone(results) THEN [outcome |-> "NonExistentSequence", obj |-> NoValue]
      ELSE IF ~parsed.ok THEN [outcome |-> "ValueError", obj |-> NoValue]
      ELSE [outcome |-> "ok",
            obj |-> [seq_id |-> info.number, sequence |-> parsed.val]]

\* Sequence.__len__
PyLen(obj) == Len(obj.sequence)

\* filter(lambda x: not x.startswith('#'), lines)
RECURSIVE DropComments(_)
DropComments(lines) ==
  IF lines = <<>> THEN <<>>
  ELSE IF PyStartsWith(Head(lines), "#") THEN DropComments(Tail(lines))
  ELSE <<Head(lines)>> \o DropComments(Tail(lines))

\* The first token of the line taken instead of the second.
BFileValueFirstToken(item) ==
  LET tok == PyListGet(PySplitWs(item), 0)
      n == PyInt(tok.value)
  IN  IF tok.outcome # "ok" THEN [outcome |-> tok.outcome, value |-> NoValue]
      ELSE IF ~n.ok THEN [outcome |-> "ValueError", value |-> NoValue]
      ELSE [outcome |-> "ok", value |-> n.val]

\* int(item.split()[1]) of one b-file line
BFileValue(item) ==
  LET tok == PyListGet(PySplitWs(item), 1)
      n == PyInt(tok.value)
  IN  IF tok.outcome # "ok" THEN [outcome |-> tok.outcome, value |-> NoValue]
      ELSE IF ~n.ok THEN [outcome |-> "ValueError", value |-> NoValue]
      ELSE [outcome |-> "ok", value |-> n.val]

\* [int(item.split()[1]) for item in seq_page]
RECURSIVE BFileValues(_)
BFileValues(lines) ==
  IF lines = <<>> THEN [outcome |-> "ok", value |-> <<>>]
  ELSE LET h == BFileValue(Head(lines))
           t == BFileValues(Tail(lines))
       IN  IF h.outcome # "ok" THEN [outcome |-> h.outcome, value |-> NoValue]
           ELSE IF t.outcome # "ok" THEN t
           ELSE [outcome |-> "ok", value |-> <<h.value>> \o t.value]

\* Sequence.fetch_sequence: one b-file request, whose values replace the list.
FetchSequence(obj) ==
  LET seq_page == DropComments(PySplit(PyRStripNl(BFileText(obj.seq_id)), "\n"))
      r == BFileValues(seq_page)
  IN  IF r.outcome = "ok"
        THEN [outcome |-> "ok", value |-> None, sequence |-> r.value, bfile |-> 1]
        ELSE [outcome |-> r.outcome, value |-> NoValue,
              sequence |-> obj.sequence, bfile |-> 1]

\* nth_term with the upper check off by one (index > len).
NthTermOffByOne(obj, index) ==
  IF index < 0 THEN Raise("NegativeIndexError", obj)
  ELSE IF index > PyLen(obj) THEN Raise("IndexTooHighError", obj)
  ELSE LET r == PyListGet(obj.sequence, index)
       IN  IF r.outcome = "ok" THEN Return(r.value, obj) ELSE Raise(r.outcome, obj)

\* nth_term fetching the b-file itself when the index is past the list.
NthTermEscalating(obj, index) ==
  LET f == FetchSequence(obj)
  IN  IF index < 0 THEN Raise("NegativeIndexError", obj)
      ELSE IF index < PyLen(obj) THEN Return(obj.sequence[index + 1], obj)
      ELSE IF f.outcome # "ok" THEN f
      ELSE IF index >= Len(f.sequence)
        THEN [f EXCEPT !.outcome = "IndexTooHighError", !.value = NoValue]
        ELSE [f EXCEPT !.value = f.sequence[index + 1]]

\* nth_term counting positions from 1.
NthTermOneBased(obj, index) ==
  IF index < 0 THEN Raise("NegativeIndexError", obj)
  ELSE IF index >= PyLen(obj) THEN Raise("IndexTooHighError", obj)
  ELSE LET r == PyListGet(obj.sequence, index - 1)
       IN  IF r.outcome = "ok" THEN Return(r.value, obj) ELSE Raise(r.outcome, obj)

\* Sequence.nth_term
NthTerm(obj, index) ==
  IF index < 0 THEN Raise("NegativeIndexError", obj)
  ELSE IF index >= PyLen(obj) THEN Raise("IndexTooHighError", obj)
  ELSE LET r == PyListGet(obj.sequence, index)
       IN  IF r.outcome = "ok" THEN Return(r.value, obj) ELSE Raise(r.outcome, obj)

\* subsequence checking start against the length before stop against 0.
SubsequenceReordered(obj, start, stop, step) ==
  LET start0 == IF IsNone(start) THEN 0 ELSE Val(start)
      stop0 == IF IsNone(stop) THEN PyLen(obj) ELSE Val(stop)
      step0 == IF IsNone(step) THEN 1 ELSE Val(step)
  IN  IF start0 < 0 THEN Raise("NegativeIndexError", obj)
      ELSE IF start0 > PyLen(obj) THEN Raise("IndexTooHighError", obj)
      ELSE IF stop0 < 0 THEN Raise("NegativeIndexError", obj)
      ELSE IF stop0 > PyLen(obj) THEN Raise("IndexTooHighError", obj)
      ELSE LET r == PySlice(obj.sequence, start0, stop0, step0)
           IN  IF r.outcome = "ok" THEN Return(r.value, obj)
               ELSE Raise(r.outcome, obj)

\* subsequence without the check of stop against the length: the slice clamps.
SubsequenceClamping(obj, start, stop, step) ==
  LET start0 == IF IsNone(start) THEN 0 ELSE Val(start)
      stop0 == IF IsNone(stop) THEN PyLen(obj) ELSE Val(stop)
      step0 == IF IsNone(step) THEN 1 ELSE Val(step)
  IN  IF start0 < 0 THEN Raise("NegativeIndexError", obj)
      ELSE IF stop0 < 0 THEN Raise("NegativeIndexError", obj)
      ELSE IF start0 > PyLen(obj) THEN Raise("IndexTooHighError", obj)
      ELSE LET r == PySlice(obj.sequence, start0, stop0, step0)
           IN  IF r.outcome = "ok" THEN Return(r.value, obj)
               ELSE Raise(r.outcome, obj)

\* Sequence.subsequence; an argument left out is None.
Subsequence(obj, start, stop, step) ==
  LET start0 == IF IsNone(start) THEN 0 ELSE Val(start)
      stop0 == IF IsNone(stop) THEN PyLen(obj) ELSE Val(stop)
      step0 == IF IsNone(step) THEN 1 ELSE Val(step)
  IN  IF start0 < 0 THEN Raise("NegativeIndexError", obj)
      ELSE IF stop0 < 0 THEN Raise("NegativeIndexError", obj)
      ELSE IF start0 > PyLen(obj) THEN Raise("IndexTooHighError", obj)
      ELSE IF stop0 > PyLen(obj) THEN Raise("IndexTooHighError", obj)
      ELSE LET r == PySlice(obj.sequence, start0, stop0, step0)
           IN  IF r.outcome = "ok" THEN Return(r.value, obj)
               ELSE Raise(r.outcome, obj)

\* Sequence.first
First(obj, items) == Subsequence(obj, Some(0), Some(items), None)

\* Sequence.__getitem__: an int key, a slice key, or any other key (None comes
\* back).
GetItem(obj, key) ==
  IF key.kind = "int" THEN NthTerm(obj, key.index)
  ELSE IF key.kind = "slice" THEN Subsequence(obj, key.start, key.stop, key.step)
  ELSE Return(None, obj)

\* Sequence.contains, and __contains__ which calls it
Contains(obj, item) ==
  Return(\E i \in 1..Len(obj.sequence) : obj.sequence[i] = item, obj)

\* The loop of find stopping only once it holds more than `instances`.
RECURSIVE FindLoopLate(_, _, _, _, _)
FindLoopLate(seq, index, item, instances, result) ==
  IF index >= Len(seq) THEN result
  ELSE IF Len(result) > instances THEN result
  ELSE FindLoopLate(seq, index + 1, item, instances,
                    IF seq[index + 1] = item THEN Append(result, index) ELSE result)

\* The loop of find over enumerate(self.sequence), from position index on.
RECURSIVE FindLoop(_, _, _, _, _)
FindLoop(seq, index, item, instances, result) ==
  IF index >= Len(seq) THEN result
  ELSE IF Len(result) = instances THEN result
  ELSE FindLoop(seq, index + 1, item, instances,
                IF seq[index + 1] = item THEN Append(result, index) ELSE result)

\* Sequence.find
Find(obj, item, instances) ==
  LET instances0 == IF IsNone(instances) THEN 1 ELSE Val(instances)
  IN  Return(FindLoop(obj.sequence, 0, item, instances0, <<>>), obj)

\* <list> + <int> and <list> - <int>: TypeError, whatever the operands hold.
ListPlusInt(list, n) == [outcome |-> "TypeError", value |-> NoValue]
ListMinusInt(list, n) == [outcome |-> "TypeError", value |-> NoValue]

\* Sequence.next: self.sequence[self.find(item) + 1]
SeqNext(obj, item) ==
  LET k == ListPlusInt(Find(obj, item, None).value, 1)
      r == PyListGet(obj.sequence, k.value)
  IN  IF k.outcome # "ok" THEN Raise(k.outcome, obj)
      ELSE IF r.outcome # "ok" THEN Raise(r.outcome, obj)
      ELSE Return(r.value, obj)

\* Sequence.prev: self.sequence[self.find(item) - 1]
SeqPrev(obj, item) ==
  LET k == ListMinusInt(Find(obj, item, None).value, 1)
      r == PyListGet(obj.sequence, k.value)
  IN  IF k.outcome # "ok" THEN Raise(k.outcome, obj)
      ELSE IF r.outcome # "ok" THEN Raise(r.outcome, obj)
      ELSE Return(r.value, obj)

\* ---------------------------------------------------------------- query

\* ' '.join(terms)
RECURSIVE PyJoin(_)
PyJoin(terms) ==
  IF terms = <<>> THEN <<>>
  ELSE IF Len(terms) = 1 THEN terms[1]
  ELSE terms[1] \o <<" ">> \o PyJoin(Tail(terms))

\* requests.utils.quote: letters, digits and _.-~/ stay, any other character
\* becomes its %XX escape.
QuoteChar(c) ==
  IF c = " " THEN <<"%", "2", "0">>
  ELSE IF c = "," THEN <<"%", "2", "C">>
  ELSE <<c>>
RECURSIVE PyQuote(_)
PyQuote(s) == IF s = <<>> THEN <<>> ELSE QuoteChar(Head(s)) \o PyQuote(Tail(s))

\* `terms is None` in place of `not terms`: no list, empty or not, is None.
TermsIsNone(terms) == FALSE

\* `not terms`
NotTerms(terms) == terms = <<>>

\* The default of `results`.
DefaultResults == 10

\* Every record of the response taken, whatever `results` is.
QueryPageAll(search, results) == search

\* search[:results]
QueryPage(search, results) == PySlice(search, 0, results, 1).value

\* The loop of query: one Sequence built a record, until one raises.
RECURSIVE QueryLoop(_, _, _)
QueryLoop(page, k, result) ==
  IF k > Len(page)
    THEN [outcome |-> "ok", value |-> result, meta |-> Len(page)]
    ELSE LET made == SequenceInit(page[k].number)
         IN  IF made.outcome # "ok"
               THEN [outcome |-> made.outcome, value |-> NoValue, meta |-> k]
               ELSE QueryLoop(page, k + 1, Append(result, made.obj))

\* The URL's q and start, as query builds them.
QueryRequest(terms, start) ==
  [q |-> PyQuote(PyJoin(terms)), start |-> IF IsNone(start) THEN 0 ELSE Val(start)]

\* query, given what the search request comes back with.
Query(terms, start, results, search) ==
  LET results0 == IF IsNone(results) THEN DefaultResults ELSE Val(results)
      made == QueryLoop(QueryPage(Val(search), results0), 1, <<>>)
  IN  IF NotTerms(terms)
        THEN [outcome |-> "EmptyQuery", value |-> NoValue, calls |-> NoCalls,
              request |-> None]
      ELSE IF IsNone(search)
        THEN [outcome |-> "ok", value |-> <<>>,
              calls |-> [NoCalls EXCEPT !.search = 1],
              request |-> Some(QueryRequest(terms, start))]
      ELSE [outcome |-> made.outcome, value |-> made.value,
            calls |-> [NoCalls EXCEPT !.search = 1, !.meta = made.meta],
            request |-> Some(QueryRequest(terms, start))]

\* -------------------------------------------------------------- actions

Call(op, args, r) ==
  /\ self' = [self EXCEPT !.sequence = r.sequence]
  /\ bfileCalls' = bfileCalls + r.bfile
  /\ last' = [op |-> op, args |-> args, outcome |-> r.outcome, value |-> r.value,
              pre |-> self.sequence,
              calls |-> [NoCalls EXCEPT !.bfile = r.bfile]]

\* The complete data OEIS holds for the instance's sequence.
Full == OeisTerms(self.seq_id)

\* The arguments the calls are given: indexes up to past the end of what OEIS
\* holds, the values OEIS holds and one it does not.
Indexes == (0 - 1)..Min(MaxIndex, Len(Full) + 1)
OptIndexes == {None} \cup {Some(i) : i \in Indexes}
Steps == {None, Some(0 - 1), Some(0), Some(1), Some(2)}
Absent == 99
Items == {Full[i] : i \in 1..Len(Full)} \cup {Absent}
Instances == {None} \cup {Some(n) : n \in (0 - 1)..MaxInstances}

DoNthTerm ==
  \E index \in Indexes :
    Call("nth_term", [index |-> index], NthTerm(self, index))

DoSubsequence ==
  \E start \in OptIndexes, stop \in OptIndexes, step \in Steps :
    Call("subsequence", [start |-> start, stop |-> stop, step |-> step],
         Subsequence(self, start, stop, step))

DoFirst ==
  \E items \in Indexes :
    Call("first", [items |-> items], First(self, items))

DoGetItem ==
  \/ \E index \in Indexes :
       Call("getitem", [kind |-> "int", index |-> index],
            GetItem(self, [kind |-> "int", index |-> index]))
  \/ \E start \in OptIndexes, stop \in OptIndexes, step \in {None, Some(2)} :
       LET key == [kind |-> "slice", start |-> start, stop |-> stop, step |-> step]
       IN  Call("getitem", key, GetItem(self, key))
  \/ Call("getitem", [kind |-> "str"], GetItem(self, [kind |-> "str"]))

DoContains ==
  \E item \in Items :
    Call("contains", [item |-> item], Contains(self, item))

DoFind ==
  \E item \in Items, instances \in Instances :
    Call("find", [item |-> item, instances |-> instances],
         Find(self, item, instances))

DoNext ==
  \E item \in Items :
    Call("next", [item |-> item], SeqNext(self, item))

DoPrev ==
  \E item \in Items :
    Call("prev", [item |-> item], SeqPrev(self, item))

DoFetchSequence ==
  /\ bfileCalls < MaxFetch
  /\ Call("fetch_sequence", [seq_id |-> self.seq_id], FetchSequence(self))

\* The arguments query is given.
QueryTerms == {<<>>, << <<"1", ",", "2">>, <<"b">> >>}
QueryStarts == {None, Some(1)}
QueryLimits == {None} \cup {Some(n) : n \in (0 - 1)..MaxResults}

DoQuery ==
  \E start \in QueryStarts :
    \E search \in SearchResults(IF IsNone(start) THEN 0 ELSE Val(start)) :
      \E terms \in QueryTerms, results \in QueryLimits :
        LET r == Query(terms, start, results, search)
        IN  /\ last' = [op |-> "query",
                        args |-> [terms |-> terms, start |-> start,
                                  results |-> results],
                        outcome |-> r.outcome, value |-> r.value,
                        pre |-> self.sequence, calls |-> r.calls,
                        request |-> r.request, response |-> search]
            /\ UNCHANGED <<self, bfileCalls>>

Init ==
  /\ \E id \in (1..NumInstanceIds) \cup {FibId} : self = SequenceInit(id).obj
  /\ bfileCalls = 0
  /\ last = [op |-> "__init__", args |-> [seq_id |-> self.seq_id], outcome |-> "ok",
             value |-> NoValue, pre |-> <<>>,
             calls |-> [NoCalls EXCEPT !.meta = 1]]

Next ==
  \/ DoNthTerm
  \/ DoSubsequence
  \/ DoFirst
  \/ DoGetItem
  \/ DoContains
  \/ DoFind
  \/ DoNext
  \/ DoPrev
  \/ DoFetchSequence

\* The calls on one Sequence instance.
Spec == Init /\ [][Next]_vars

\* The calls of the module's function query, which neither reads nor changes an
\* instance: the run starts with the one of FibId constructed.
InitQuery == Init /\ self.seq_id = FibId
SpecQuery == InitQuery /\ [][DoQuery]_vars

\* --------------------------------------------------------------- claims

IsPrefix(s, t) == Len(s) <= Len(t) /\ \A k \in 1..Len(s) : s[k] = t[k]
Resolved(x, default) == IF IsNone(x) THEN default ELSE Val(x)
Occurrences(seq, item) == {p \in 0..(Len(seq) - 1) : seq[p + 1] = item}
FirstIndex(seq, item) ==
  CHOOSE p \in Occurrences(seq, item) : \A q \in Occurrences(seq, item) : p <= q

\* The last call was nth_term(i) or seq[i], or subsequence, first or seq[a:b:c].
LastIndexCall ==
  last.op = "nth_term" \/ (last.op = "getitem" /\ last.args.kind = "int")
LastRangeCall ==
  last.op \in {"subsequence", "first"}
    \/ (last.op = "getitem" /\ last.args.kind = "slice")
RangeStart == IF last.op = "first" THEN Some(0) ELSE last.args.start
RangeStop == IF last.op = "first" THEN Some(last.args.items) ELSE last.args.stop
RangeStep == IF last.op = "first" THEN None ELSE last.args.step
\* The b-file requests made before the last call.
FetchedBefore == bfileCalls - last.calls.bfile

C3_NegativeFailsFast ==
  ( \/ (LastIndexCall /\ last.args.index < 0)
    \/ (LastRangeCall /\ ( \/ Resolved(RangeStart, 0) < 0
                           \/ Resolved(RangeStop, 0) < 0)) ) =>
    /\ last.outcome = "NegativeIndexError"
    /\ last.calls = NoCalls
    /\ self.sequence = last.pre

C3_Witness ==
  /\ last.op = "subsequence"
  /\ Resolved(last.args.start, 0) > Len(last.pre)
  /\ Resolved(last.args.stop, 0) < 0
  /\ last.outcome = "NegativeIndexError"

\* C4: nth_term(i) and seq[i] with 0 <= i < len(sample) return sample[i], make
\* no remote request and leave the list as it was; the instance constructed from
\* the record whose data is "1,1,2,3,5" holds [1,1,2,3,5], and its index 2
\* returns 2.
C4_InSampleLookup ==
  /\ (LastIndexCall /\ last.args.index >= 0
        /\ last.args.index < Len(last.pre)) =>
       /\ last.outcome = "ok"
       /\ last.value = last.pre[last.args.index + 1]
       /\ last.calls = NoCalls
       /\ self.sequence = last.pre
  /\ (self.seq_id = FibId /\ bfileCalls = 0) =>
       /\ OeisRecord(FibId).data = <<"1", ",", "1", ",", "2", ",", "3", ",", "5">>
       /\ self.sequence = <<1, 1, 2, 3, 5>>
       /\ (LastIndexCall /\ last.args.index = 2) =>
            (last.outcome = "ok" /\ last.value = 2)

C4_Witness ==
  /\ self.seq_id = FibId
  /\ bfileCalls = 0
  /\ last.op = "nth_term"
  /\ last.args.index = 2
  /\ last.outcome = "ok"
  /\ last.value = 2

C6_FindFirstOccurrences ==
  last.op = "find" =>
    LET count == Resolved(last.args.instances, 1)
        occ == Occurrences(last.pre, last.args.item)
        n == Min(count, Cardinality(occ))
    IN  count >= 0 =>
          /\ last.outcome = "ok"
          /\ Len(last.value) = n
          /\ \A k \in 1..n :
               /\ last.value[k] \in occ
               /\ Cardinality({p \in occ : p < last.value[k]}) = k - 1
          /\ last.calls = NoCalls

C6_Witness ==
  /\ last.op = "find"
  /\ last.args.instances = Some(1)
  /\ Cardinality(Occurrences(last.pre, last.args.item)) >= 2
  /\ last.value = <<FirstIndex(last.pre, last.args.item)>>

\* C7, as the claim states it: with the first occurrence of value at index i,
\* next(value) returns the element at i + 1, or raises IndexTooHighError when i
\* is the last index; prev(value) returns the element at i - 1, or raises
\* NegativeIndexError when i = 0.
C7_NextPrevAdjacent ==
  (last.op \in {"next", "prev"}
     /\ Occurrences(last.pre, last.args.item) # {}) =>
    LET i == FirstIndex(last.pre, last.args.item)
    IN  IF last.op = "next"
          THEN IF i + 1 < Len(last.pre)
                 THEN last.outcome = "ok" /\ last.value = last.pre[i + 2]
                 ELSE last.outcome = "IndexTooHighError"
          ELSE IF i - 1 >= 0
                 THEN last.outcome = "ok" /\ last.value = last.pre[i]
                 ELSE last.outcome = "NegativeIndexError"

\* C8: query with an empty list of terms raises EmptyQuery, whatever start and
\* results are, and makes neither the search request nor a metadata request.
C8_EmptyQueryFailsFast ==
  (last.op = "query" /\ last.args.terms = <<>>) =>
    /\ last.outcome = "EmptyQuery"
    /\ last.calls = NoCalls
    /\ IsNone(last.request)

C8_Witness ==
  /\ last.op = "query"
  /\ last.args.terms = <<>>
  /\ last.args.start = Some(1)
  /\ last.args.results = Some(2)
  /\ ~IsNone(last.response)
  /\ Len(Val(last.response)) >= 2
  /\ last.outcome = "EmptyQuery"

\* The Sequence object OEIS's record stands for.
ObjectOf(rec) ==
  [seq_id |-> rec.number,
   sequence |-> SubSeq(OeisTerms(rec.number), 1, InlineLen(rec.number))]

\* query made one search request and returned one object for each of the first
\* limit records of the response, in the response's order, each from its own
\* metadata request; the empty list when the response holds no match.
QueryReturnsFirst(limit) ==
  /\ last.calls.search = 1
  /\ last.outcome = "ok"
  /\ IF IsNone(last.response)
       THEN last.value = <<>> /\ last.calls.meta = 0
       ELSE LET recs == Val(last.response)
                n == Min(limit, Len(recs))
            IN  /\ last.value = [k \in 1..n |-> ObjectOf(recs[k])]
                /\ last.calls.meta = Len(last.value)

\* C9, as the claim states it: for every non-empty list of terms, every offset
\* and every limit (10 when left out) query returns the objects of the first
\* `limit` records.
C9_FirstLimitRecords ==
  (last.op = "query" /\ last.args.terms # <<>>) =>
    QueryReturnsFirst(Resolved(last.args.results, 10))

\* C9, amended: the same for every limit >= 0 (10 when left out).
C9_FirstLimitRecordsNonNegative ==
  (last.op = "query" /\ last.args.terms # <<>>
     /\ Resolved(last.args.results, 10) >= 0) =>
    QueryReturnsFirst(Resolved(last.args.results, 10))

C9_Witness ==
  /\ last.op = "query"
  /\ last.args.terms # <<>>
  /\ IsNone(last.args.results)
  /\ ~IsNone(last.response)
  /\ Len(Val(last.response)) > 10
  /\ Len(last.value) = 10

\* C10: in every state the list the instance holds is a prefix of the terms OEIS
\* holds for its sequence, and after fetch_sequence it is all of them, in the
\* b-file's order.
C10_SamplePrefix ==
  /\ IsPrefix(self.sequence, Full)
  /\ (last.op = "fetch_sequence" /\ last.outcome = "ok") => self.sequence = Full

C10_Witness ==
  /\ bfileCalls >= 1
  /\ last.op = "nth_term"
  /\ last.outcome = "IndexTooHighError"
  /\ Len(Full) > InlineLen(self.seq_id)
  /\ self.sequence = Full

====
